---- MODULE Spec2Model ----
(***************************************************************************)
(* Model of the real-time speech-to-text session of                        *)
(* src/app/app_hailo_whisper.py: main() chooses the chunk length and calls *)
(* real_time_stt(), which runs three activities over one buffer:           *)
(*   - the capture callback audio_callback (audio subsystem thread),       *)
(*   - the daemon thread transcription_worker,                             *)
(*   - the main thread, which opens the input stream, waits for Ctrl+C,    *)
(*     returns, stops the backend and lets the process exit.               *)
(* A sample is modelled by its arrival number (1, 2, 3, ...), so that the  *)
(* order and identity of samples can be observed.  Texts are sequences of  *)
(* one-character strings.                                                  *)
(***************************************************************************)
EXTENDS Integers, Sequences, FiniteSets, TLC

(* ------------------------------ bounds -------------------------------- *)
\* Samples per second at model scale (the program's rate is 16000).
SAMPLE_RATE == 1
\* chunk_length is held as a whole number of 1/ChunkDen seconds.
ChunkDen == 2
\* Total number of samples the capture layer delivers in one run.
MaxSamples == 4
\* Largest number of frames in one callback block.
MaxBlock == 2
\* Largest number of feature frames preprocess returns for one chunk.
MaxFrames == 2

(* ------------------------- program constants -------------------------- *)
\* chunk_length = 10 if "tiny" in variant else 5   (seconds)
DefaultChunkTiny == 10
DefaultChunkBase == 5
\* chunk_offset = start_time - 0.2                 (tenths of a second)
ONSET_BACKOFF == 2
\* np.max(np.abs(improved_audio)) > 0.05           (hundredths)
AMP_THRESHOLD == 5

\* Python's optional values: None, or Some(x) holding x = Val(Some(x)).
None == <<>>
Some(x) == <<x>>
Val(o) == o[1]

\* --chunk-length values tried, in 1/ChunkDen seconds (None: not given).
ArgChunkLengths == {-3, -1, 1, 3, 4}
Variants == {"base", "tiny", "tiny.en"}
\* --chunk-length inf and nan: type=float accepts them, and chunk_length
\* then holds no number (the model keeps 0 in chunk_length, unused).
NonFinite == {"inf", "nan"}
\* Speech onsets the trimmer may report, in tenths of a second.
Onsets == {-1, 1, 10}
\* Peak absolute amplitudes of the trimmed audio, in hundredths.
Peaks == {3, 5, 8}
\* Results of clean_transcription.
Transcriptions == { <<"h", "i">>, <<" ", ".">>, <<>> }
\* Stages of a chunk's processing that may raise.
Stages == {"trim", "preprocess", "send", "poll", "clean"}

VARIABLES
    chunk_length,      \* real_time_stt parameter, in 1/ChunkDen seconds
    chunk_kind,        \* "finite", "inf" or "nan": what float chunk_length is
    fast_mode,         \* real_time_stt parameter
    stream_output,     \* real_time_stt parameter
    audio_buffer,      \* the shared buffer (sequence of samples)
    buffer_lock,       \* "free", "callback" or "worker": who holds the lock
    stream,            \* "closed", "active", "stopped": the sd.InputStream
    captured,          \* number of samples delivered by the capture layer
    cb_pc,             \* position of audio_callback
    indata,            \* block of the callback in progress
    status,            \* status flag of the callback in progress
    status_printed,    \* whether that callback printed "Audio status"
    w_pc,              \* position of transcription_worker
    audio_chunk,       \* worker local: None or the extracted chunk
    chunks_processed,  \* worker local
    use_vad,           \* worker local: None or the vad argument passed
    improved_audio,    \* worker local: None or [peak |-> p]
    start_time,        \* worker local: None or the onset
    chunk_offset,      \* worker local: None or the offset
    mel_spectrograms,  \* worker local: frames not yet handled
    frame_log,         \* what the current iteration did per frame
    fault,             \* None or the stage that raised in this iteration
    error_printed,     \* whether this iteration printed "Error: ..."
    prev_fault,        \* history: fault of the previous iteration
    backend,           \* "ready", "stalled" or "stopped"
    main_pc,           \* position of the main thread
    notice,            \* "none", "stopping" or "error": what main printed
    appended,          \* history: all samples appended, in callback order
    extracted          \* history: all chunks extracted, in extraction order

vars == << chunk_length, chunk_kind, fast_mode, stream_output,
           audio_buffer, buffer_lock, stream, captured, cb_pc, indata,
           status, status_printed, w_pc, audio_chunk, chunks_processed,
           use_vad, improved_audio, start_time, chunk_offset,
           mel_spectrograms, frame_log, fault, error_printed, prev_fault,
           backend, main_pc, notice, appended, extracted >>

config_vars == << chunk_length, chunk_kind, fast_mode, stream_output >>
cb_vars == << cb_pc, indata, status, status_printed, captured >>
w_locals == << audio_chunk, chunks_processed, use_vad, improved_audio,
               start_time, chunk_offset, mel_spectrograms, frame_log, fault,
               error_printed, prev_fault >>
main_vars == << main_pc, notice, stream >>

(* ------------------------------ helpers ------------------------------- *)
Max(a, b) == IF a >= b THEN a ELSE b

\* int(x) of Python for x = num / den, den > 0: truncation toward zero.
IntTrunc(num, den) ==
    IF num >= 0 THEN num \div den ELSE -((-num) \div den)

\* required_samples = int(chunk_length * SAMPLE_RATE), chunk_length finite.
required_samples == IntTrunc(chunk_length * SAMPLE_RATE, ChunkDen)

\* main(): the chunk length handed to real_time_stt.
MainChunkLength(arg, variant) ==
    IF arg /= None THEN Val(arg)
    ELSE IF variant \in {"tiny", "tiny.en"} THEN DefaultChunkTiny * ChunkDen
         ELSE DefaultChunkBase * ChunkDen

\* The index a Python slice bound n denotes in a sequence of length len.
SliceIndex(n, len) ==
    IF n < 0 THEN Max(len + n, 0) ELSE IF n <= len THEN n ELSE len

\* a[:n] and a[n:] of a numpy array.
SliceTo(s, n) == SubSeq(s, 1, SliceIndex(n, Len(s)))
SliceFrom(s, n) == SubSeq(s, SliceIndex(n, Len(s)) + 1, Len(s))

RECURSIVE Flatten(_)
Flatten(ss) == IF ss = <<>> THEN <<>> ELSE Head(ss) \o Flatten(Tail(ss))

\* The samples number a+1 .. a+k.
Block(a, k) == [i \in 1..k |-> a + i]

(* ------------------------------- Init --------------------------------- *)
Init ==
    /\ \/ /\ chunk_kind = "finite"
          /\ \E arg \in {Some(a) : a \in ArgChunkLengths} \cup {None},
                variant \in Variants :
                 chunk_length = MainChunkLength(arg, variant)
       \/ /\ chunk_kind \in NonFinite
          /\ chunk_length = 0
    /\ fast_mode \in BOOLEAN
    /\ stream_output \in BOOLEAN
    /\ audio_buffer = <<>>
    /\ buffer_lock = "free"
    /\ stream = "closed"
    /\ captured = 0
    /\ cb_pc = "idle"
    /\ indata = <<>>
    /\ status = FALSE
    /\ status_printed = FALSE
    /\ w_pc = "not_started"
    /\ audio_chunk = None
    /\ chunks_processed = 0
    /\ use_vad = None
    /\ improved_audio = None
    /\ start_time = None
    /\ chunk_offset = None
    /\ mel_spectrograms = <<>>
    /\ frame_log = <<>>
    /\ fault = None
    /\ error_printed = FALSE
    /\ prev_fault = None
    /\ backend = "ready"
    /\ main_pc = "start"
    /\ notice = "none"
    /\ appended = <<>>
    /\ extracted = <<>>

(* ------------------------- audio_callback ----------------------------- *)
\* The audio subsystem invokes the callback with a block of k frames; a set
\* status is printed before the lock is requested.
CallbackInvoke ==
    /\ stream = "active"
    /\ cb_pc = "idle"
    /\ \E k \in 1..MaxBlock, s \in BOOLEAN :
          /\ captured + k <= MaxSamples
          /\ indata' = Block(captured, k)
          /\ captured' = captured + k
          /\ status' = s
          /\ status_printed' = s
    /\ cb_pc' = "acquire"
    /\ UNCHANGED << config_vars, audio_buffer, buffer_lock, w_pc, w_locals,
                    backend, main_vars, appended, extracted >>

\* with buffer_lock:
CallbackAcquire ==
    /\ cb_pc = "acquire"
    /\ buffer_lock = "free"
    /\ buffer_lock' = "callback"
    /\ cb_pc' = "append"
    /\ UNCHANGED << config_vars, audio_buffer, captured, indata, status,
                    status_printed, w_pc, w_locals, backend, main_vars,
                    appended, extracted >>

\* Mutant of CallbackAppend: the block is put in front of the buffer.
CallbackAppend_Prepend ==
    /\ cb_pc = "append"
    /\ audio_buffer' = indata \o audio_buffer
    /\ appended' = appended \o indata
    /\ cb_pc' = "release"
    /\ UNCHANGED << config_vars, buffer_lock, captured, indata, status,
                    status_printed, w_pc, w_locals, backend, main_vars,
                    extracted >>

\* Mutant of CallbackAppend: a callback with a status returns without
\* appending.
CallbackAppend_SkipOnStatus ==
    /\ cb_pc = "append"
    /\ audio_buffer' = IF status THEN audio_buffer ELSE audio_buffer \o indata
    /\ appended' = IF status THEN appended ELSE appended \o indata
    /\ cb_pc' = "release"
    /\ UNCHANGED << config_vars, buffer_lock, captured, indata, status,
                    status_printed, w_pc, w_locals, backend, main_vars,
                    extracted >>

\* audio_buffer = np.concatenate([audio_buffer, indata[:, 0]])
CallbackAppend ==
    /\ cb_pc = "append"
    /\ audio_buffer' = audio_buffer \o indata
    /\ appended' = appended \o indata
    /\ cb_pc' = "release"
    /\ UNCHANGED << config_vars, buffer_lock, captured, indata, status,
                    status_printed, w_pc, w_locals, backend, main_vars,
                    extracted >>

\* leaving the with block; the callback returns.
CallbackRelease ==
    /\ cb_pc = "release"
    /\ buffer_lock' = "free"
    /\ cb_pc' = "idle"
    /\ indata' = <<>>
    /\ status' = FALSE
    /\ status_printed' = FALSE
    /\ UNCHANGED << config_vars, audio_buffer, captured, w_pc, w_locals,
                    backend, main_vars, appended, extracted >>

(* ----------------------- transcription_worker ------------------------- *)
\* while True: ... with buffer_lock:
WorkerAcquire ==
    /\ w_pc = "top"
    /\ buffer_lock = "free"
    /\ buffer_lock' = "worker"
    /\ w_pc' = "locked"
    /\ UNCHANGED << config_vars, audio_buffer, cb_vars, w_locals, backend,
                    main_vars, appended, extracted >>

\* Mutant of ExtractReady: the length check is forgotten.
ExtractReady_NoLengthCheck(buf, n) == n > 0

\* if len(audio_buffer) >= required_samples and required_samples > 0:
ExtractReady(buf, n) == Len(buf) >= n /\ n > 0

\* Mutant of WorkerExtract: one sample too many is removed.
WorkerExtract_OffByOne ==
    /\ w_pc = "locked"
    /\ chunk_kind = "finite"
    /\ IF ExtractReady(audio_buffer, required_samples)
       THEN /\ audio_chunk' = Some(SliceTo(audio_buffer, required_samples))
            /\ audio_buffer' = SliceFrom(audio_buffer, required_samples + 1)
            /\ extracted' =
                  Append(extracted, SliceTo(audio_buffer, required_samples))
       ELSE UNCHANGED << audio_chunk, audio_buffer, extracted >>
    /\ w_pc' = "release"
    /\ UNCHANGED << config_vars, buffer_lock, cb_vars, chunks_processed,
                    use_vad, improved_audio, start_time, chunk_offset,
                    mel_spectrograms, frame_log, fault, error_printed,
                    prev_fault, backend, main_vars, appended >>

\* The check and the removal, inside the lock.
WorkerExtract ==
    /\ w_pc = "locked"
    /\ chunk_kind = "finite"
    /\ IF ExtractReady(audio_buffer, required_samples)
       THEN /\ audio_chunk' = Some(SliceTo(audio_buffer, required_samples))
            /\ audio_buffer' = SliceFrom(audio_buffer, required_samples)
            /\ extracted' =
                  Append(extracted, SliceTo(audio_buffer, required_samples))
       ELSE UNCHANGED << audio_chunk, audio_buffer, extracted >>
    /\ w_pc' = "release"
    /\ UNCHANGED << config_vars, buffer_lock, cb_vars, chunks_processed,
                    use_vad, improved_audio, start_time, chunk_offset,
                    mel_spectrograms, frame_log, fault, error_printed,
                    prev_fault, backend, main_vars, appended >>

\* Mutant of WorkerRelease: the chunk is processed with the lock still held.
WorkerRelease_KeepLock ==
    /\ w_pc = "release"
    /\ buffer_lock' = buffer_lock
    /\ IF audio_chunk /= None /\ Len(Val(audio_chunk)) > 0
       THEN /\ chunks_processed' = chunks_processed + 1
            /\ w_pc' = "trim"
       ELSE /\ chunks_processed' = chunks_processed
            /\ w_pc' = "sleep"
    /\ UNCHANGED << config_vars, audio_buffer, cb_vars, audio_chunk,
                    use_vad, improved_audio, start_time, chunk_offset,
                    mel_spectrograms, frame_log, fault, error_printed,
                    prev_fault, backend, main_vars, appended, extracted >>

\* int(chunk_length * SAMPLE_RATE) raises OverflowError for inf and
\* ValueError for nan.  The statement is inside the with block and outside
\* the try: the lock is released and the exception ends the worker thread.
WorkerIntRaises ==
    /\ w_pc = "locked"
    /\ chunk_kind \in NonFinite
    /\ buffer_lock' = "free"
    /\ w_pc' = "dead"
    /\ UNCHANGED << config_vars, audio_buffer, cb_vars, w_locals, backend,
                    main_vars, appended, extracted >>

\* Leaving the with block, then
\* if audio_chunk is not None and len(audio_chunk) > 0: chunks_processed += 1
WorkerRelease ==
    /\ w_pc = "release"
    /\ buffer_lock' = "free"
    /\ IF audio_chunk /= None /\ Len(Val(audio_chunk)) > 0
       THEN /\ chunks_processed' = chunks_processed + 1
            /\ w_pc' = "trim"
       ELSE /\ chunks_processed' = chunks_processed
            /\ w_pc' = "sleep"
    /\ UNCHANGED << config_vars, audio_buffer, cb_vars, audio_chunk,
                    use_vad, improved_audio, start_time, chunk_offset,
                    mel_spectrograms, frame_log, fault, error_printed,
                    prev_fault, backend, main_vars, appended, extracted >>

\* Mutant of Raise: the exception is not caught and ends the worker thread.
Raise_Unhandled(stage) ==
    /\ fault' = Some(stage)
    /\ w_pc' = "dead"

\* A call of the try block raises: control goes to the except clause.
Raise(stage) ==
    /\ fault' = Some(stage)
    /\ w_pc' = "except"

\* The results improve_input_audio may return: the trimmed audio (of which
\* only the peak amplitude is kept) and the onset, None without VAD.
improve_input_audio(vad) ==
    { [peak |-> p, start_time |-> t] :
        p \in Peaks,
        t \in (IF vad THEN {Some(o) : o \in Onsets} \cup {None} ELSE {None}) }

\* Mutant of ChunkOffset: the clamp at 0 is missing.
ChunkOffset_NoClamp(t) ==
    IF t /= None THEN Val(t) - ONSET_BACKOFF ELSE 0

\* chunk_offset = start_time - 0.2, clamped at 0; 0 without an onset.
ChunkOffset(t) ==
    IF t /= None
    THEN (IF Val(t) - ONSET_BACKOFF < 0 THEN 0 ELSE Val(t) - ONSET_BACKOFF)
    ELSE 0

\* Mutant of WorkerTrim: the trimmer is always called with vad=True.
WorkerTrim_AlwaysVad ==
    /\ w_pc = "trim"
    /\ use_vad' = Some(TRUE)
    /\ \/ /\ \E r \in improve_input_audio(Val(use_vad')) :
                /\ improved_audio' = Some([peak |-> r.peak])
                /\ start_time' = r.start_time
                /\ chunk_offset' = Some(ChunkOffset(r.start_time))
          /\ w_pc' = "preprocess"
          /\ fault' = fault
       \/ /\ Raise("trim")
          /\ UNCHANGED << improved_audio, start_time, chunk_offset >>
    /\ UNCHANGED << config_vars, audio_buffer, buffer_lock, cb_vars,
                    audio_chunk, chunks_processed, mel_spectrograms,
                    frame_log, error_printed, prev_fault, backend, main_vars,
                    appended, extracted >>

\* use_vad = not fast_mode; improved_audio, start_time = improve_input_audio(..)
\* and the computation of chunk_offset.
WorkerTrim ==
    /\ w_pc = "trim"
    /\ use_vad' = Some(~fast_mode)
    /\ \/ /\ \E r \in improve_input_audio(Val(use_vad')) :
                /\ improved_audio' = Some([peak |-> r.peak])
                /\ start_time' = r.start_time
                /\ chunk_offset' = Some(ChunkOffset(r.start_time))
          /\ w_pc' = "preprocess"
          /\ fault' = fault
       \/ /\ Raise("trim")
          /\ UNCHANGED << improved_audio, start_time, chunk_offset >>
    /\ UNCHANGED << config_vars, audio_buffer, buffer_lock, cb_vars,
                    audio_chunk, chunks_processed, mel_spectrograms,
                    frame_log, error_printed, prev_fault, backend, main_vars,
                    appended, extracted >>

\* mel_spectrograms = preprocess(improved_audio, ..., chunk_offset=...);
\* start_time and chunk_offset are not read again.
WorkerPreprocess ==
    /\ w_pc = "preprocess"
    /\ \/ /\ \E n \in 1..MaxFrames : mel_spectrograms' = [i \in 1..n |-> i]
          /\ w_pc' = "send"
          /\ fault' = fault
       \/ /\ Raise("preprocess")
          /\ mel_spectrograms' = mel_spectrograms
    /\ start_time' = None
    /\ chunk_offset' = None
    /\ UNCHANGED << config_vars, audio_buffer, buffer_lock, cb_vars,
                    audio_chunk, chunks_processed, use_vad, improved_audio,
                    frame_log, error_printed, prev_fault, backend, main_vars,
                    appended, extracted >>

(* --------------------------- the frame loop --------------------------- *)
\* for mel in mel_spectrograms: exhausted, the try block ends.
WorkerLoopEnd ==
    /\ w_pc = "send"
    /\ mel_spectrograms = <<>>
    /\ w_pc' = "sleep"
    /\ UNCHANGED << config_vars, audio_buffer, buffer_lock, cb_vars, w_locals,
                    backend, main_vars, appended, extracted >>

\* What the worker did with one frame so far.
FrameEntry(mel) ==
    [mel |-> mel, polled |-> FALSE, transcription |-> None, written |-> None]

\* frame_log with its last entry's field f set to v.
LogSet(log, f, v) == [log EXCEPT ![Len(log)] = [@ EXCEPT ![f] = v]]

\* Mutant of WorkerSend: the frames are submitted from the last one.
WorkerSend_LastFirst ==
    /\ w_pc = "send"
    /\ mel_spectrograms /= <<>>
    /\ backend /= "stalled"
    /\ \/ /\ frame_log' =
                Append(frame_log,
                       FrameEntry(mel_spectrograms[Len(mel_spectrograms)]))
          /\ w_pc' = "poll"
          /\ fault' = fault
       \/ /\ Raise("send")
          /\ frame_log' = frame_log
    /\ UNCHANGED << config_vars, audio_buffer, buffer_lock, cb_vars,
                    audio_chunk, chunks_processed, use_vad, improved_audio,
                    start_time, chunk_offset, mel_spectrograms,
                    error_printed, prev_fault, backend, main_vars, appended,
                    extracted >>

\* whisper_hailo.send_data(mel), then time.sleep(0.05); the call returns or
\* raises; a stalled backend does not return.
WorkerSend ==
    /\ w_pc = "send"
    /\ mel_spectrograms /= <<>>
    /\ backend /= "stalled"
    /\ \/ /\ frame_log' = Append(frame_log, FrameEntry(Head(mel_spectrograms)))
          /\ w_pc' = "poll"
          /\ fault' = fault
       \/ /\ Raise("send")
          /\ frame_log' = frame_log
    /\ UNCHANGED << config_vars, audio_buffer, buffer_lock, cb_vars,
                    audio_chunk, chunks_processed, use_vad, improved_audio,
                    start_time, chunk_offset, mel_spectrograms,
                    error_printed, prev_fault, backend, main_vars, appended,
                    extracted >>

\* raw_transcription = whisper_hailo.get_transcription()
WorkerPoll ==
    /\ w_pc = "poll"
    /\ backend /= "stalled"
    /\ \/ /\ frame_log' = LogSet(frame_log, "polled", TRUE)
          /\ w_pc' = "clean"
          /\ fault' = fault
       \/ /\ Raise("poll")
          /\ frame_log' = frame_log
    /\ UNCHANGED << config_vars, audio_buffer, buffer_lock, cb_vars,
                    audio_chunk, chunks_processed, use_vad, improved_audio,
                    start_time, chunk_offset, mel_spectrograms,
                    error_printed, prev_fault, backend, main_vars, appended,
                    extracted >>

\* The backend stops answering while the worker is about to call, or is
\* inside, send_data or get_transcription: the call never returns.
BackendStall ==
    /\ w_pc \in {"send", "poll"}
    /\ w_pc = "send" => mel_spectrograms /= <<>>
    /\ backend = "ready"
    /\ backend' = "stalled"
    /\ UNCHANGED << config_vars, audio_buffer, buffer_lock, cb_vars, w_pc,
                    w_locals, main_vars, appended, extracted >>

(* ------------------------------ output -------------------------------- *)
PREFIX == "[Transcription] "
NL == "\n"

\* str.strip(): leading and trailing blanks removed.
RECURSIVE LStrip(_)
LStrip(t) == IF t /= <<>> /\ Head(t) = " " THEN LStrip(Tail(t)) ELSE t
RECURSIVE RStrip(_)
RStrip(t) ==
    IF t /= <<>> /\ t[Len(t)] = " " THEN RStrip(SubSeq(t, 1, Len(t) - 1))
    ELSE t
Strip(t) == RStrip(LStrip(t))

\* if transcription.strip() and transcription.strip() != "."
Meaningful(t) == Strip(t) /= <<>> /\ Strip(t) /= <<".">>

\* Mutant of Written: the elif branch for a lone period is missing.
Written_NoPeriodBranch(t, peak, streaming) ==
    IF Meaningful(t)
    THEN <<PREFIX>> \o t \o <<NL>>
    ELSE IF peak > AMP_THRESHOLD
    THEN (IF streaming THEN <<PREFIX, "(unclear)">>
          ELSE <<PREFIX, "(unclear audio)", NL>>)
    ELSE <<>>

\* Mutant of Written: the amplitude test is >= instead of >.
Written_ThresholdInclusive(t, peak, streaming) ==
    IF Meaningful(t)
    THEN <<PREFIX>> \o t \o <<NL>>
    ELSE IF Strip(t) = <<".">>
    THEN <<>>
    ELSE IF peak >= AMP_THRESHOLD
    THEN (IF streaming THEN <<PREFIX, "(unclear)">>
          ELSE <<PREFIX, "(unclear audio)", NL>>)
    ELSE <<>>

\* Mutant of Written: the amplitude test of the else branch is missing.
Written_NoAmplitudeGate(t, peak, streaming) ==
    IF Meaningful(t)
    THEN <<PREFIX>> \o t \o <<NL>>
    ELSE IF Strip(t) = <<".">>
    THEN <<>>
    ELSE (IF streaming THEN <<PREFIX, "(unclear)">>
          ELSE <<PREFIX, "(unclear audio)", NL>>)

\* What the output statements write to stdout for one frame, as the sequence
\* of pieces written (<<>>: nothing is written).
Written(t, peak, streaming) ==
    IF Meaningful(t)
    THEN <<PREFIX>> \o t \o <<NL>>
    ELSE IF Strip(t) = <<".">>
    THEN <<>>
    ELSE IF peak > AMP_THRESHOLD
    THEN (IF streaming THEN <<PREFIX, "(unclear)">>
          ELSE <<PREFIX, "(unclear audio)", NL>>)
    ELSE <<>>

\* transcription = clean_transcription(raw_transcription), which returns or
\* raises; then the if / elif / else that writes the output, then the next
\* frame.
WorkerClean ==
    /\ w_pc = "clean"
    /\ \/ /\ \E t \in Transcriptions :
                frame_log' =
                   LogSet(LogSet(frame_log, "transcription", Some(t)),
                          "written",
                          Some(Written(t, Val(improved_audio).peak,
                                       stream_output)))
          /\ mel_spectrograms' = Tail(mel_spectrograms)
          /\ w_pc' = "send"
          /\ fault' = fault
       \/ /\ Raise("clean")
          /\ UNCHANGED << mel_spectrograms, frame_log >>
    /\ UNCHANGED << config_vars, audio_buffer, buffer_lock, cb_vars,
                    audio_chunk, chunks_processed, use_vad, improved_audio,
                    start_time, chunk_offset, error_printed, prev_fault,
                    backend, main_vars, appended, extracted >>

\* Mutant of WorkerExcept: the handler swallows the exception silently.
WorkerExcept_Silent ==
    /\ w_pc = "except"
    /\ error_printed' = error_printed
    /\ w_pc' = "sleep"
    /\ UNCHANGED << config_vars, audio_buffer, buffer_lock, cb_vars,
                    audio_chunk, chunks_processed, use_vad, improved_audio,
                    start_time, chunk_offset, mel_spectrograms, frame_log,
                    fault, prev_fault, backend, main_vars, appended,
                    extracted >>

\* Mutant of WorkerExcept: the handler prints the error and leaves the loop.
WorkerExcept_Break ==
    /\ w_pc = "except"
    /\ error_printed' = TRUE
    /\ w_pc' = "dead"
    /\ UNCHANGED << config_vars, audio_buffer, buffer_lock, cb_vars,
                    audio_chunk, chunks_processed, use_vad, improved_audio,
                    start_time, chunk_offset, mel_spectrograms, frame_log,
                    fault, prev_fault, backend, main_vars, appended,
                    extracted >>

\* except Exception as e: print(f"Error: {e}")
WorkerExcept ==
    /\ w_pc = "except"
    /\ error_printed' = TRUE
    /\ w_pc' = "sleep"
    /\ UNCHANGED << config_vars, audio_buffer, buffer_lock, cb_vars,
                    audio_chunk, chunks_processed, use_vad, improved_audio,
                    start_time, chunk_offset, mel_spectrograms, frame_log,
                    fault, prev_fault, backend, main_vars, appended,
                    extracted >>

\* time.sleep(0.01), then the next iteration of while True, which begins with
\* audio_chunk = None.  The other locals are dead until reassigned, and the
\* logs of the iteration start empty.
WorkerSleep ==
    /\ w_pc = "sleep"
    /\ w_pc' = "top"
    /\ audio_chunk' = None
    /\ use_vad' = None
    /\ improved_audio' = None
    /\ start_time' = None
    /\ chunk_offset' = None
    /\ mel_spectrograms' = <<>>
    /\ frame_log' = <<>>
    /\ prev_fault' = fault
    /\ fault' = None
    /\ error_printed' = FALSE
    /\ UNCHANGED << config_vars, audio_buffer, buffer_lock, cb_vars,
                    chunks_processed, backend, main_vars, appended,
                    extracted >>

(* ---------------------------- main thread ----------------------------- *)
\* real_time_stt: the banner, then worker_thread.start().
MainStartWorker ==
    /\ main_pc = "start"
    /\ w_pc' = "top"
    /\ main_pc' = "open"
    /\ UNCHANGED << config_vars, audio_buffer, buffer_lock, cb_vars, w_locals,
                    backend, notice, stream, appended, extracted >>

\* with sd.InputStream(...): the stream starts; "Listening...".
MainOpenStream ==
    /\ main_pc = "open"
    /\ stream' = "active"
    /\ main_pc' = "listening"
    /\ UNCHANGED << config_vars, audio_buffer, buffer_lock, cb_vars, w_pc,
                    w_locals, backend, notice, appended, extracted >>

\* sd.InputStream(...) raises: except Exception prints the error and
\* real_time_stt returns.
MainOpenFail ==
    /\ main_pc = "open"
    /\ notice' = "error"
    /\ main_pc' = "returned"
    /\ UNCHANGED << config_vars, audio_buffer, buffer_lock, cb_vars, w_pc,
                    w_locals, backend, stream, appended, extracted >>

\* Ctrl+C: KeyboardInterrupt is raised in the main thread inside the with
\* block, whose exit stops the stream: no further callback is invoked.
MainInterrupt ==
    /\ main_pc = "listening"
    /\ stream' = "stopped"
    /\ main_pc' = "closing"
    /\ UNCHANGED << config_vars, audio_buffer, buffer_lock, cb_vars, w_pc,
                    w_locals, backend, notice, appended, extracted >>

\* The stream's stop returns once the callback in progress has returned;
\* except KeyboardInterrupt prints the notice and real_time_stt returns.
MainHandleInterrupt ==
    /\ main_pc = "closing"
    /\ cb_pc = "idle"
    /\ notice' = "stopping"
    /\ main_pc' = "returned"
    /\ UNCHANGED << config_vars, audio_buffer, buffer_lock, cb_vars, w_pc,
                    w_locals, backend, stream, appended, extracted >>

\* main(): whisper_hailo.stop()
MainStopBackend ==
    /\ main_pc = "returned"
    /\ backend' = "stopped"
    /\ main_pc' = "stopped"
    /\ UNCHANGED << config_vars, audio_buffer, buffer_lock, cb_vars, w_pc,
                    w_locals, notice, stream, appended, extracted >>

\* main() returns and the process exits: the daemon worker thread ends
\* wherever it is.
MainExit ==
    /\ main_pc = "stopped"
    /\ main_pc' = "exited"
    /\ w_pc' = "killed"
    /\ UNCHANGED << config_vars, audio_buffer, buffer_lock, cb_vars, w_locals,
                    backend, notice, stream, appended, extracted >>

(* ------------------------------ the system ---------------------------- *)
Callback ==
    \/ CallbackInvoke
    \/ CallbackAcquire
    \/ CallbackAppend
    \/ CallbackRelease

Worker ==
    \/ WorkerAcquire
    \/ WorkerExtract
    \/ WorkerIntRaises
    \/ WorkerRelease
    \/ WorkerTrim
    \/ WorkerPreprocess
    \/ WorkerLoopEnd
    \/ WorkerSend
    \/ WorkerPoll
    \/ WorkerClean
    \/ WorkerExcept
    \/ WorkerSleep

Main ==
    \/ MainStartWorker
    \/ MainOpenStream
    \/ MainOpenFail
    \/ MainInterrupt
    \/ MainHandleInterrupt
    \/ MainStopBackend
    \/ MainExit

Next == Callback \/ Worker \/ BackendStall \/ Main

Spec == Init /\ [][Next]_vars

\* The audio subsystem's thread runs the callback it has invoked: a callback
\* that can take its next step eventually takes it.
CallbackRuns == CallbackAcquire \/ CallbackAppend \/ CallbackRelease

FairSpec == Spec /\ WF_vars(CallbackRuns)

\* The system whose collaborator calls all return or raise: the backend
\* never stalls.  Both threads are scheduled fairly: the worker's next step
\* is eventually taken, and its `with buffer_lock` eventually gets a lock
\* that is free again and again.  Nothing obliges the user to interrupt.
NextReturning == Callback \/ Worker \/ Main

ProgressSpec ==
    /\ Init
    /\ [][NextReturning]_vars
    /\ WF_vars(CallbackRuns)
    /\ WF_vars(Worker)
    /\ SF_vars(WorkerAcquire)

(* ============================== claims ================================ *)
RECURSIVE SumLen(_)
SumLen(ss) == IF ss = <<>> THEN 0 ELSE Len(Head(ss)) + SumLen(Tail(ss))

\* A step of the worker's check-and-remove (the body of its with block).
ExtractionStep == w_pc = "locked" /\ w_pc' = "release"

(* C1: one extraction step of the worker is all-or-nothing.  With          *)
(* n = int(chunk_length * SAMPLE_RATE), it either returns a chunk of       *)
(* exactly n samples, the first n of the buffer, and shortens the buffer   *)
(* by exactly these n; or it returns nothing and leaves the buffer as it   *)
(* was.  It returns nothing whenever the buffer holds fewer than n samples *)
(* (and when n <= 0), and a chunk whenever the buffer holds n > 0 samples. *)
C1_AllOrNothing ==
    [][ ExtractionStep =>
          LET n == required_samples IN
          \/ /\ Len(audio_buffer) >= n
             /\ n > 0
             /\ audio_chunk' /= None
             /\ Len(Val(audio_chunk')) = n
             /\ Len(audio_buffer') = Len(audio_buffer) - n
             /\ audio_buffer = Val(audio_chunk') \o audio_buffer'
          \/ /\ Len(audio_buffer) < n \/ n <= 0
             /\ audio_chunk' = None
             /\ audio_buffer' = audio_buffer ]_vars

\* The scenario at model scale: n = 2; the buffer held one sample, one more
\* was appended, and the extraction returned both and left the buffer empty.
C1_Witness ==
    /\ required_samples = 2
    /\ w_pc = "release"
    /\ audio_chunk = Some(<<1, 2>>)
    /\ audio_buffer = <<>>
    /\ captured = 2

(* C2: no sample is lost, duplicated or reordered.  The chunks extracted   *)
(* so far, concatenated in extraction order, followed by the buffer, are   *)
(* the samples appended so far in callback order, which is arrival order;  *)
(* the chunk being processed is the one extracted last.                    *)
C2_NoLossNoDup ==
    /\ Flatten(extracted) \o audio_buffer = appended
    /\ appended = Block(0, Len(appended))
    /\ audio_chunk /= None => Val(audio_chunk) = extracted[Len(extracted)]

C2_Witness ==
    /\ Len(extracted) >= 2
    /\ audio_buffer /= <<>>
    /\ cb_pc = "acquire"
    /\ w_pc = "poll"

(* C3: the buffer length is the total length of the appended blocks minus  *)
(* the total length of the extracted chunks; an append of a block of k     *)
(* frames raises it by exactly k, and only a successful extraction, by     *)
(* exactly the chunk's length, lowers it.                                  *)
C3_LengthAccounting ==
    /\ [](Len(audio_buffer) = Len(appended) - SumLen(extracted))
    /\ [][ /\ (cb_pc = "append" /\ cb_pc' = "release") =>
                /\ Len(audio_buffer') = Len(audio_buffer) + Len(indata)
                /\ Len(appended') = Len(appended) + Len(indata)
           /\ Len(audio_buffer') < Len(audio_buffer) =>
                /\ ExtractionStep
                /\ audio_chunk' /= None
                /\ extracted' = Append(extracted, Val(audio_chunk'))
                /\ Len(audio_buffer) - Len(audio_buffer')
                      = Len(Val(audio_chunk')) ]_vars

C3_Witness ==
    /\ Len(appended) = 4
    /\ SumLen(extracted) = 2
    /\ Len(audio_buffer) = 2
    /\ Len(extracted) = 2

\* Positions of the worker outside its with block, in a chunk's processing
\* or in the sleep that ends the iteration.
WorkerOutsideLock ==
    {"trim", "preprocess", "send", "poll", "clean", "except", "sleep"}

(* C4: the callback's append and the worker's check-and-remove are         *)
(* critical sections of one lock, never occupied together, and the worker  *)
(* does not hold the lock in trimming, feature extraction, backend         *)
(* submit/poll, output or sleep.                                           *)
C4_LockDiscipline ==
    /\ cb_pc \in {"append", "release"} => buffer_lock = "callback"
    /\ w_pc \in {"locked", "release"} => buffer_lock = "worker"
    /\ ~(cb_pc \in {"append", "release"} /\ w_pc \in {"locked", "release"})
    /\ w_pc \in WorkerOutsideLock => buffer_lock /= "worker"

C4_Witness ==
    /\ w_pc = "poll"
    /\ cb_pc = "append"
    /\ buffer_lock = "callback"

Range(f) == { f[i] : i \in DOMAIN f }

\* The worker is inside a backend call that never returns.
WorkerStalled == backend = "stalled" /\ w_pc \in {"send", "poll"}

(* C5: a stalled backend stalls only the worker.  While the worker is      *)
(* blocked in a backend submit or poll, a capture callback that has        *)
(* started is never kept waiting by the worker (the lock is free for it),  *)
(* and under fair scheduling of the callback it eventually returns with    *)
(* every sample captured so far appended, whatever the size of the buffer. *)
C5_StallSparesCapture ==
    /\ []((WorkerStalled /\ cb_pc = "acquire") => buffer_lock = "free")
    /\ (WorkerStalled /\ cb_pc /= "idle")
          ~> (cb_pc = "idle" /\ appended = Block(0, captured))

\* The worker is stalled in a poll and the buffer has grown past a full
\* chunk by a callback that ran during the stall.
C5_Witness ==
    /\ WorkerStalled
    /\ w_pc = "poll"
    /\ cb_pc = "release"
    /\ Len(audio_buffer) >= required_samples
    /\ Range(indata) \subseteq Range(audio_buffer)

\* The frames of the current chunk for which something was written.
FramesWritten ==
    { i \in DOMAIN frame_log :
        frame_log[i].written /= None /\ Val(frame_log[i].written) /= <<>> }

(* C6: after a user interrupt has been handled (the termination notice is  *)
(* printed and real_time_stt has returned), no capture callback appends    *)
(* and the worker makes no further extraction, submit, poll or output.     *)
C6_InterruptStopsWorker ==
    [][ notice = "stopping" =>
          /\ appended' = appended
          /\ extracted' = extracted
          /\ ~(w_pc = "send" /\ w_pc' \in {"poll", "except"})
          /\ ~(w_pc = "poll" /\ w_pc' \in {"clean", "except"})
          /\ ~(w_pc = "clean" /\ w_pc' = "send"
                 /\ Len(frame_log') \in FramesWritten') ]_vars

(* C7: the real-time loop never runs with required <= 0: when              *)
(* int(chunk_length * SAMPLE_RATE) is zero or negative, neither the worker *)
(* loop nor the capture stream is started.                                 *)
C7_BadChunkLengthRejected ==
    (chunk_kind = "finite" /\ required_samples <= 0)
       => (w_pc = "not_started" /\ stream = "closed")

(* C8: when the feature extractor raises for a chunk, the worker logs the  *)
(* fault, submits nothing to the backend and emits nothing for that chunk, *)
(* the raising and its handling leave the buffer as it was, and the next   *)
(* iteration's extraction takes the next n samples in arrival order as     *)
(* soon as the buffer holds n of them.                                     *)
C8_ExtractorFault ==
    /\ [](fault = Some("preprocess") =>
             /\ frame_log = <<>>
             /\ w_pc \in {"except", "sleep", "killed"}
             /\ w_pc = "sleep" => error_printed)
    /\ [][ /\ ( /\ fault = Some("preprocess") \/ fault' = Some("preprocess")
                /\ w_pc' /= w_pc )
              => (audio_buffer' = audio_buffer /\ extracted' = extracted)
           /\ ( /\ prev_fault = Some("preprocess")
                /\ ExtractionStep
                /\ Len(audio_buffer) >= required_samples )
              => /\ audio_chunk' =
                       Some(Block(SumLen(extracted), required_samples))
                 /\ audio_buffer = Val(audio_chunk') \o audio_buffer' ]_vars

C8_Witness ==
    /\ prev_fault = Some("preprocess")
    /\ w_pc = "release"
    /\ audio_chunk = Some(<<3, 4>>)
    /\ Len(extracted) = 2

(* C9 as claimed: after a fault at any stage of a chunk, no transcription  *)
(* or marker of that chunk has been emitted.                               *)
C9_FaultSkipsChunkOutput ==
    fault /= None => FramesWritten = {}

\* The frames of the current chunk whose handling reached the output step.
FramesDone == { i \in DOMAIN frame_log : frame_log[i].written /= None }

(* C9 amended: a fault at any stage of a chunk is caught and logged; no    *)
(* output is emitted for the frame being handled when it is raised, nor    *)
(* for any later frame of the chunk (the frames before it were handled     *)
(* completely, and what they wrote stays written); and the worker goes on  *)
(* to the end-of-iteration sleep and the next iteration.                   *)
C9_FaultSkipsRestOfChunk ==
    /\ [](fault /= None =>
             /\ w_pc \in {"except", "sleep", "killed"}
             /\ w_pc = "sleep" => error_printed
             /\ Val(fault) \in {"trim", "preprocess"} => frame_log = <<>>
             /\ Val(fault) = "send" =>
                   /\ FramesDone = DOMAIN frame_log
                   /\ mel_spectrograms /= <<>>
                   /\ Head(mel_spectrograms) = Len(frame_log) + 1
             /\ Val(fault) \in {"poll", "clean"} =>
                   /\ frame_log /= <<>>
                   /\ FramesDone = 1..(Len(frame_log) - 1)
                   /\ Head(mel_spectrograms) = Len(frame_log))
    /\ [][ (fault /= None /\ w_pc' /= w_pc) =>
              \/ w_pc = "except" /\ w_pc' = "sleep"
              \/ w_pc = "sleep" /\ w_pc' = "top"
              \/ w_pc' = "killed" ]_vars

C9_Witness ==
    /\ fault = Some("send")
    /\ w_pc = "sleep"
    /\ error_printed
    /\ Len(frame_log) = 1
    /\ frame_log[1].written = Some(<<PREFIX, "h", "i", NL>>)

\* The unclear-audio marker, as written in stream and in line mode.
IsMarker(w) ==
    w \in { <<PREFIX, "(unclear)">>, <<PREFIX, "(unclear audio)", NL>> }

Markers == { i \in FramesDone : IsMarker(Val(frame_log[i].written)) }

EmptyFrames ==
    { i \in FramesDone : Strip(Val(frame_log[i].transcription)) = <<>> }

\* The chunk's processing ended without a fault, on trimmed audio whose
\* peak exceeds the threshold.
LoudChunkDone ==
    /\ w_pc = "sleep"
    /\ fault = None
    /\ improved_audio /= None
    /\ Val(improved_audio).peak > AMP_THRESHOLD

(* C10 as claimed: a chunk above the amplitude threshold whose frames all  *)
(* have an empty transcription gets the marker exactly once, whatever the  *)
(* number of frames.                                                       *)
C10_MarkerOncePerChunk ==
    (LoudChunkDone /\ EmptyFrames = DOMAIN frame_log)
       => Cardinality(Markers) = 1

(* C10 amended: with trimmed audio above the amplitude threshold, the      *)
(* marker is produced exactly once for each frame whose sanitized          *)
(* transcription is empty and for no other frame; a chunk whose frames     *)
(* all have an empty transcription gets as many markers as the extractor   *)
(* returned frames.                                                        *)
C10_MarkerOncePerEmptyFrame ==
    /\ (improved_audio /= None /\ Val(improved_audio).peak > AMP_THRESHOLD)
          => Markers = EmptyFrames
    /\ (LoudChunkDone /\ EmptyFrames = DOMAIN frame_log)
          => Cardinality(Markers) = Len(frame_log)

C10_Witness ==
    /\ LoudChunkDone
    /\ Len(frame_log) = 2
    /\ EmptyFrames = {1, 2}
    /\ Markers = {1, 2}

\* Peak absolute amplitude of the trimmed audio of the current chunk.
Peak == Val(improved_audio).peak

\* Frames handled to the end whose transcription is not meaningful, and
\* among them those that are a lone period.
NotMeaningfulFrames ==
    { i \in FramesDone : ~Meaningful(Val(frame_log[i].transcription)) }
PeriodFrames ==
    { i \in FramesDone : Strip(Val(frame_log[i].transcription)) = <<".">> }

(* C11 as claimed: a frame whose transcription is not meaningful (empty    *)
(* after stripping, or just a period) gets the unclear-audio marker if     *)
(* the peak of the trimmed audio exceeds 0.05, and nothing otherwise.      *)
C11_NotMeaningfulGatedByAmplitude ==
    \A i \in NotMeaningfulFrames :
       IF Peak > AMP_THRESHOLD
       THEN IsMarker(Val(frame_log[i].written))
       ELSE Val(frame_log[i].written) = <<>>

(* C11 amended: a transcription that is empty after stripping is gated by  *)
(* amplitude alone: the marker is emitted for that frame if the peak of    *)
(* the trimmed audio exceeds 0.05, and nothing is emitted at a peak of     *)
(* 0.05 or less.  A transcription that is just a period emits nothing      *)
(* whatever the amplitude.                                                 *)
C11_EmptyGatedPeriodSilent ==
    /\ \A i \in EmptyFrames :
          IF Peak > AMP_THRESHOLD
          THEN IsMarker(Val(frame_log[i].written))
          ELSE Val(frame_log[i].written) = <<>>
    /\ \A i \in PeriodFrames : Val(frame_log[i].written) = <<>>

C11_Witness ==
    /\ improved_audio /= None
    /\ Peak > AMP_THRESHOLD
    /\ Len(frame_log) = 2
    /\ PeriodFrames = {1}
    /\ EmptyFrames = {2}
    /\ frame_log[1].written = Some(<<>>)
    /\ IsMarker(Val(frame_log[2].written))

(* C12: for a chunk whose trimmed audio peaks below 0.05 and whose         *)
(* sanitized transcriptions are empty, the worker writes nothing at all,   *)
(* in line mode and in stream mode: no frame of it has written anything    *)
(* while it is handled, and none has when its handling ends.               *)
C12_QuietEmptySilent ==
    (improved_audio /= None /\ Peak < AMP_THRESHOLD)
       => /\ \A i \in EmptyFrames : frame_log[i].written = Some(<<>>)
          /\ (EmptyFrames = DOMAIN frame_log /\ fault = None)
                => FramesWritten = {}

C12_Witness ==
    /\ w_pc = "sleep"
    /\ fault = None
    /\ improved_audio /= None
    /\ Peak < AMP_THRESHOLD
    /\ stream_output
    /\ Len(frame_log) = 2
    /\ EmptyFrames = {1, 2}
    /\ FramesWritten = {}

(* C13: the chunk offset handed to the feature extractor is                *)
(* max(0, onset - 0.2) when the trimmer reported an onset and 0 when it    *)
(* reported none; it is never negative, also for a negative onset; an      *)
(* onset of 0.1 gives 0 and an onset of 1.0 gives 0.8 (tenths of a second).*)
C13_OffsetClamped ==
    w_pc = "preprocess" =>
       /\ chunk_offset /= None
       /\ Val(chunk_offset) >= 0
       /\ start_time = None => Val(chunk_offset) = 0
       /\ start_time /= None =>
             Val(chunk_offset) = Max(0, Val(start_time) - ONSET_BACKOFF)
       /\ start_time = Some(1) => Val(chunk_offset) = 0
       /\ start_time = Some(10) => Val(chunk_offset) = 8

C13_Witness ==
    /\ w_pc = "preprocess"
    /\ start_time = Some(-1)
    /\ chunk_offset = Some(0)

(* C14: in fast mode the trimmer is called with vad=False for every chunk, *)
(* the onset the worker holds is always None, and the chunk offset handed  *)
(* to the feature extractor is always 0.                                   *)
C14_FastModeNoVad ==
    fast_mode =>
       /\ use_vad \in {None, Some(FALSE)}
       /\ start_time = None
       /\ chunk_offset \in {None, Some(0)}
       /\ w_pc = "preprocess" =>
             (use_vad = Some(FALSE) /\ chunk_offset = Some(0))

C14_Witness ==
    /\ fast_mode
    /\ w_pc = "preprocess"
    /\ use_vad = Some(FALSE)
    /\ start_time = None
    /\ chunk_offset = Some(0)
    /\ Len(extracted) = 2

\* The frames submitted to the backend and not polled yet.
Unpolled == { i \in DOMAIN frame_log : ~frame_log[i].polled }

(* C15: within a chunk the frames are handled one at a time in the order   *)
(* the feature extractor returned them (frame i of the chunk is the i-th   *)
(* submitted): a frame is submitted only when every frame submitted        *)
(* before it has been polled and has had its output written, so at most    *)
(* one frame is submitted and not yet polled; a poll is of the frame       *)
(* submitted last; and a chunk handled without fault ends with every       *)
(* frame submitted once, polled once and its output written.               *)
C15_FramesOneAtATime ==
    /\ [](/\ \A i \in DOMAIN frame_log : frame_log[i].mel = i
          /\ Unpolled \subseteq {Len(frame_log)}
          /\ \A i \in 1..(Len(frame_log) - 1) : i \in FramesDone
          /\ \A i \in FramesDone : frame_log[i].polled
          /\ w_pc = "poll" => Unpolled = {Len(frame_log)}
          /\ (w_pc = "send" /\ mel_spectrograms /= <<>>) =>
                Head(mel_spectrograms) = Len(frame_log) + 1
          /\ (w_pc = "sleep" /\ fault = None /\ audio_chunk /= None) =>
                (frame_log /= <<>> /\ FramesDone = DOMAIN frame_log))
    /\ [][ /\ Len(frame_log') > Len(frame_log) =>
                /\ Len(frame_log') = Len(frame_log) + 1
                /\ FramesDone = DOMAIN frame_log
                /\ frame_log'[Len(frame_log')].mel = Head(mel_spectrograms)
                /\ SubSeq(frame_log', 1, Len(frame_log)) = frame_log
           /\ (Len(frame_log') = Len(frame_log) /\ Unpolled' /= Unpolled) =>
                (Unpolled = {Len(frame_log)} /\ Unpolled' = {}) ]_vars

C15_Witness ==
    /\ w_pc = "poll"
    /\ Len(frame_log) = 2
    /\ frame_log[1].polled
    /\ frame_log[1].written /= None
    /\ frame_log[2].mel = 2
    /\ ~frame_log[2].polled

\* The state of the worker's state machine the worker is in: waiting for
\* data covers the check under the lock, the end-of-iteration sleep and the
\* exhausted frame loop; "FAULT" is the except clause, "DEAD" a worker thread
\* ended by an exception, "KILLED" one ended by the exit of the process.
Phase ==
    CASE w_pc = "not_started" -> "NOT_STARTED"
      [] w_pc \in {"top", "locked", "release", "sleep"} -> "WAIT_FOR_DATA"
      [] w_pc = "trim" -> "VAD_TRIM"
      [] w_pc = "preprocess" -> "FEATURE_EXTRACT"
      [] w_pc = "send" ->
            (IF mel_spectrograms = <<>> THEN "WAIT_FOR_DATA" ELSE "INFER")
      [] w_pc = "poll" -> "INFER"
      [] w_pc = "clean" -> "EMIT"
      [] w_pc = "except" -> "FAULT"
      [] w_pc = "killed" -> "KILLED"
      [] OTHER -> "DEAD"

\* The transitions of the state machine, a fault leading to the except
\* clause and from there back to waiting.
PhaseTransitions ==
    { <<"NOT_STARTED", "WAIT_FOR_DATA">>,
      <<"WAIT_FOR_DATA", "VAD_TRIM">>,
      <<"VAD_TRIM", "FEATURE_EXTRACT">>,
      <<"FEATURE_EXTRACT", "INFER">>,
      <<"INFER", "EMIT">>,
      <<"EMIT", "INFER">>,
      <<"EMIT", "WAIT_FOR_DATA">>,
      <<"VAD_TRIM", "FAULT">>,
      <<"FEATURE_EXTRACT", "FAULT">>,
      <<"INFER", "FAULT">>,
      <<"EMIT", "FAULT">>,
      <<"FAULT", "WAIT_FOR_DATA">> }

(* C16: the worker follows only the transitions WAIT_FOR_DATA -> VAD_TRIM  *)
(* -> FEATURE_EXTRACT -> (INFER -> EMIT)* -> WAIT_FOR_DATA, a fault in any *)
(* phase leading back to WAIT_FOR_DATA; it leaves WAIT_FOR_DATA only with  *)
(* a chunk just extracted; and the only way its loop ends is the exit of   *)
(* the process.                                                           *)
C16_WorkerStateMachine ==
    [][ Phase' /= Phase =>
          /\ Phase' /= "DEAD"
          /\ Phase' = "KILLED" => main_pc' = "exited"
          /\ Phase' /= "KILLED" => << Phase, Phase' >> \in PhaseTransitions
          /\ (Phase = "WAIT_FOR_DATA" /\ Phase' = "VAD_TRIM") =>
                /\ audio_chunk /= None
                /\ Len(Val(audio_chunk)) = required_samples
                /\ extracted /= <<>>
                /\ extracted[Len(extracted)] = Val(audio_chunk) ]_vars

(* C17: a callback invoked with a status prints it and is otherwise the    *)
(* callback without status: it appends its whole block at the end of the   *)
(* buffer, returns with the lock free and the stream as it was, and a      *)
(* further callback can be invoked after it: whenever no callback is in    *)
(* progress, every sample delivered so far has been appended.              *)
C17_StatusNonFatal ==
    /\ [](/\ cb_pc /= "idle" => (status_printed = status /\ indata /= <<>>)
          /\ cb_pc = "release" =>
                /\ Len(audio_buffer) >= Len(indata)
                /\ SubSeq(audio_buffer, Len(audio_buffer) - Len(indata) + 1,
                          Len(audio_buffer)) = indata
          /\ cb_pc = "idle" => appended = Block(0, captured)
          /\ (cb_pc = "idle" /\ stream = "active" /\ captured < MaxSamples)
                => ENABLED CallbackInvoke)
    /\ [][ /\ (cb_pc = "append" /\ cb_pc' = "release") =>
                audio_buffer' = audio_buffer \o indata
           /\ (cb_pc /= "idle" /\ cb_pc' = "idle") =>
                (buffer_lock' = "free" /\ stream' = stream) ]_vars

C17_Witness ==
    /\ cb_pc = "release"
    /\ status
    /\ status_printed
    /\ indata = <<3, 4>>
    /\ appended = <<1, 2, 3, 4>>
    /\ stream = "active"

\* A step in which the worker calls send_data or get_transcription (the
\* call returns or raises).
BackendCall ==
    \/ /\ w_pc = "send"
       /\ mel_spectrograms /= <<>>
       /\ w_pc' \in {"poll", "except"}
    \/ w_pc = "poll" /\ w_pc' \in {"clean", "except"}

(* C18: once whisper_hailo.stop() has been called by main, the worker      *)
(* makes no further send_data or get_transcription call.                   *)
C18_NoCallAfterStop ==
    [][ backend = "stopped" => ~BackendCall ]_vars

\* The buffer holds a chunk and required > 0.
ChunkAvailable ==
    /\ chunk_kind = "finite"
    /\ required_samples > 0
    /\ Len(audio_buffer) >= required_samples

\* The worker has just extracted a chunk.
JustExtracted == w_pc = "release" /\ audio_chunk /= None

(* C19: with required > 0, both threads scheduled fairly and every         *)
(* collaborator call returning or raising, whenever the buffer holds at    *)
(* least required samples the worker eventually extracts a chunk, as long  *)
(* as the process has not exited; this holds also from the states in       *)
(* which a call of the current chunk has raised.                           *)
C19_Progress ==
    ChunkAvailable ~> (JustExtracted \/ w_pc = "killed")

C19_Witness ==
    /\ JustExtracted
    /\ prev_fault = Some("poll")
    /\ Len(extracted) = 2
    /\ main_pc = "listening"

(* C20: what is written for a frame in stream mode, piece by piece, is     *)
(* the text of the line written for the same frame in line mode, for a     *)
(* meaningful transcription and for the unclear-audio marker alike,        *)
(* newline included.                                                       *)
C20_StreamWritesTheLine ==
    \A i \in FramesWritten :
       Val(frame_log[i].written) =
          Written(Val(frame_log[i].transcription), Peak, FALSE)

====
